---- MODULE Spec2Model ----
(***************************************************************************)
(* A model of DownloadStationAPI (download_station_api.py): one client,    *)
(* strictly sequential, every HTTP round trip one step.  The remote        *)
(* service is the environment: each response is chosen from the set of     *)
(* JSON bodies the handler can read.  time.sleep is not modelled (it does  *)
(* not change state).                                                      *)
(***************************************************************************)
EXTENDS Integers, Sequences, FiniteSets, TLC

VARIABLES
  instance,        \* "none" | "alive" | "failed" (what the constructor call produced),
                   \* "exited" once exit(1) has ended the process
  session_id,      \* self.session_id
  login_sid,       \* history: the sid the login of __init__ returned
  credentials,     \* <<self.user_name, self.password>>
  pc,              \* position of the (single) caller inside the running method
  op,              \* the method called last: [name, arg]
  search_task_id,  \* local of the search workflows
  new_status,      \* local of correct_finished_downloads
  sent,            \* requests issued by the call of op, in order
  recv,            \* the responses to them, in order
  logged,          \* payloads given to logger.error(data) by the call of op
  ret,             \* what the call of op returned or raised
  deleted,         \* remote service: ids of the tasks it has deleted
  logged_out       \* history: __exit__ has sent a logout request

vars == <<instance, session_id, login_sid, credentials, pc, op, search_task_id, new_status,
          sent, recv, logged, ret, deleted, logged_out>>

\* ------------------------------------------------------------- bounds
MaxPolls == 3
MaxChecks == 3

\* ------------------------------------------------------------- inputs
Absent == "<absent>"
UserNames == {"admin"}
Passwords == {"secret"}
SIDs == {"sidA", "sidB"}
DownloadTaskIds == {"dbid_1", "dbid_2"}
SearchTaskIds == {"search_1"}
SearchTerms == {"show"}
Qualities == {"720p", "1080p"}
Urls == {"magnet:a", "magnet:b"}
Destinations == {"/AutomaticDownloads/Series", "/video"}
UnknownNames == {"DS_Schedule", "api_auth", ""}
Statuses == {"finished", "seeding", "downloading", "paused"}

\* ------------------------------------------------------------- registry
nas_api_endpoint_details ==
  [ API_Info     |-> [path |-> "query.cgi", api_endpoint |-> "SYNO.API.Info"],
    API_Auth     |-> [path |-> "auth.cgi", api_endpoint |-> "SYNO.API.Auth"],
    DS_Info      |-> [path |-> "DownloadStation/info.cgi",
                      api_endpoint |-> "SYNO.DownloadStation.Info"],
    DS_BT_Search |-> [path |-> "DownloadStation/btsearch.cgi",
                      api_endpoint |-> "SYNO.DownloadStation.BTSearch"],
    DS_Task      |-> [path |-> "DownloadStation/task.cgi",
                      api_endpoint |-> "SYNO.DownloadStation.Task"] ]

RegistryKeys == DOMAIN nas_api_endpoint_details

\* ------------------------------------------------------------- responses
\* One JSON response; a field the body does not carry is Absent (or its default).
Blank ==
  [status_code |-> 200, success |-> TRUE, code |-> 0, sid |-> Absent,
   taskid |-> Absent, finished |-> FALSE, items |-> 0, status |-> Absent]

AuthResponses ==
  {[Blank EXCEPT !.sid = s] : s \in SIDs \cup {Absent}}
    \cup {[Blank EXCEPT !.success = FALSE, !.code = 400]}

StartResponses ==
  {[Blank EXCEPT !.status_code = c, !.taskid = t, !.success = (c = 200)] :
      c \in {200, 500}, t \in SearchTaskIds \cup {Absent}}

ListResponses ==
  {[Blank EXCEPT !.finished = f, !.items = k] : f \in BOOLEAN, k \in {1, 2}}

TaskResponses ==
  {Blank, [Blank EXCEPT !.success = FALSE, !.code = 405]}

InfoResponses ==
  {[Blank EXCEPT !.status = s] : s \in Statuses}
    \cup {[Blank EXCEPT !.success = FALSE, !.code = 404]}

\* The remote service does not report success for a task it has deleted.
ServerAllows(id, data) == id \in deleted => ~data.success

\* ------------------------------------------------------------- results
Pending == [kind |-> "pending", text |-> "", arg |-> "", data |-> Blank]
RetTrue == [Pending EXCEPT !.kind = "True"]
RetFalse == [Pending EXCEPT !.kind = "False"]
RetNone == [Pending EXCEPT !.kind = "None"]
RetStr(s) == [Pending EXCEPT !.kind = "str", !.text = s]
RetData(data) == [Pending EXCEPT !.kind = "data", !.data = data]
RetJson(data) == [Pending EXCEPT !.kind = "json", !.data = data]
Raise(exc, a) == [Pending EXCEPT !.kind = "raise", !.text = exc, !.arg = a]

NoOp == [name |-> "", arg |-> <<>>]

\* ------------------------------------------------------------- parameters
\* A params dict is the sequence of its <<key, value>> pairs in insertion order,
\* the order in which requests writes them into the query string; numbers are
\* written as their decimal text.
authentication_params(session, format, method, version, user_name, password) ==
  << <<"session", session>>, <<"format", format>>, <<"method", method>>,
     <<"version", version>>, <<"account", user_name>>, <<"passwd", password>> >>

search_start_params(search_term, sid) ==
  << <<"version", "1">>, <<"method", "start">>, <<"keyword", search_term>>,
     <<"module", "enabled">>, <<"_sid", sid>> >>

search_list_params(quality_to_search, task_id, sid) ==
  << <<"sort_by", "seeds">>, <<"sort_direction", "desc">>, <<"version", "1">>,
     <<"method", "list">>, <<"filter_title", quality_to_search>>,
     <<"taskid", task_id>>, <<"_sid", sid>> >>

get_info_params(download_task_id, sid) ==
  << <<"version", "1">>, <<"method", "getinfo">>, <<"additional", "detail,file">>,
     <<"id", download_task_id>>, <<"_sid", sid>> >>

list_info_params(sid) ==
  << <<"version", "1">>, <<"method", "list">>, <<"additional", "detail,file">>,
     <<"_sid", sid>> >>

add_params_sid_first(url, destination, sid) ==
  << <<"version", "2">>, <<"method", "create">>, <<"_sid", sid>>,
     <<"uri", url>>, <<"destination", destination>> >>

add_params(url, destination, sid) ==
  << <<"version", "2">>, <<"method", "create">>, <<"uri", url>>,
     <<"destination", destination>>, <<"_sid", sid>> >>

resume_params(download_task_id, sid) ==
  << <<"version", "1">>, <<"method", "resume">>, <<"id", download_task_id>>,
     <<"_sid", sid>> >>

delete_params(download_task_id, sid) ==
  << <<"version", "1">>, <<"method", "delete">>, <<"id", download_task_id>>,
     <<"_sid", sid>> >>

\* ------------------------------------------------------------- dispatcher
NoEntry == [path |-> Absent, api_endpoint |-> Absent]

\* nas_api_endpoint_details.get(api_endpoint): None for a missing key.
Lookup(api_endpoint) ==
  IF api_endpoint \in RegistryKeys THEN nas_api_endpoint_details[api_endpoint]
  ELSE NoEntry

\* The GET of requests.get(api_url, params=params): the url's own query
\* (?api=...) comes first, the params follow it in their order.
Request(endpoint_info, params) ==
  [path |-> endpoint_info.path,
   query |-> << <<"api", endpoint_info.api_endpoint>> >> \o params]

\* _get_api_data up to the request: the exception it raises (if any) and the
\* requests it sends (none or one).  endpoint_info.get on None is an
\* AttributeError, raised before requests.get is reached.
get_api_data(api_endpoint, params) ==
  LET endpoint_info == Lookup(api_endpoint) IN
  IF endpoint_info = NoEntry
    THEN [exc |-> "AttributeError", reqs |-> <<>>]
    ELSE [exc |-> "", reqs |-> << Request(endpoint_info, params) >>]

Param(req, key) ==
  LET I == {i \in 1..Len(req.query) : req.query[i][1] = key} IN
  IF I = {} THEN Absent ELSE req.query[CHOOSE i \in I : TRUE][2]

\* ------------------------------------------------------------- handlers' results
\* authenticate, lines 89-97.
AuthResultCarryOn(data) ==
  IF data.sid = Absent THEN Raise("KeyError", "sid") ELSE RetStr(data.sid)

AuthResult(data) ==
  IF data.success
    THEN IF data.sid = Absent THEN Raise("KeyError", "sid") ELSE RetStr(data.sid)
    ELSE Raise("AuthError", "Authentication unsuccessful")

\* __init__: the instance exists only when authenticate returned.
InitOutcomeAlways(r) == "alive"

InitOutcome(r) == IF r.kind = "str" THEN "alive" ELSE "failed"

\* add/resume/remove: data['success'] is True.
BoolResultAlwaysTrue(data) == RetTrue

BoolResult(data) == IF data.success THEN RetTrue ELSE RetFalse

\* get_download_info, get_individual_download_info.
InfoResult(data) == IF data.success THEN RetData(data) ELSE RetFalse

\* check_if_search_is_done, lines 224-227.
CheckResult(data) == IF data.finished = FALSE THEN RetFalse ELSE RetData(data)

ErrorLog(data) == IF data.success THEN <<>> ELSE <<data>>

\* ------------------------------------------------------------- initial state
Init ==
  /\ instance = "none"
  /\ session_id = Absent
  /\ login_sid = Absent
  /\ credentials = <<Absent, Absent>>
  /\ pc = "idle"
  /\ op = NoOp
  /\ search_task_id = Absent
  /\ new_status = Absent
  /\ sent = <<>>
  /\ recv = <<>>
  /\ logged = <<>>
  /\ ret = Pending
  /\ deleted = {}
  /\ logged_out = FALSE

Callable == pc = "idle" /\ instance = "alive"

\* ------------------------------------------------------------- construction
\* DownloadStationAPI(user_name, password, nas_ip): __init__ with its login.
Construct ==
  /\ pc = "idle" /\ instance = "none"
  /\ \E user_name \in UserNames, password \in Passwords, data \in AuthResponses :
       LET d == get_api_data("API_Auth",
                  authentication_params("DownloadStation", "cookie", "login", "2",
                                        user_name, password))
           r == AuthResult(data)
       IN /\ op' = [name |-> "__init__", arg |-> <<user_name, password>>]
          /\ sent' = d.reqs
          /\ recv' = <<data>>
          /\ logged' = ErrorLog(data)
          /\ ret' = r
          /\ instance' = InitOutcome(r)
          /\ session_id' = IF r.kind = "str" THEN r.text ELSE session_id
          /\ login_sid' = IF r.kind = "str" THEN r.text ELSE login_sid
          /\ credentials' = <<user_name, password>>
  /\ UNCHANGED <<pc, search_task_id, new_status, deleted, logged_out>>

\* A later call of the public method authenticate: it returns the sid and
\* stores nothing.
Authenticate ==
  /\ Callable
  /\ \E data \in AuthResponses :
       LET d == get_api_data("API_Auth",
                  authentication_params("DownloadStation", "cookie", "login", "2",
                                        credentials[1], credentials[2]))
       IN /\ sent' = d.reqs
          /\ recv' = <<data>>
          /\ logged' = ErrorLog(data)
          /\ ret' = AuthResult(data)
  /\ op' = [name |-> "authenticate", arg |-> <<>>]
  /\ UNCHANGED <<instance, session_id, login_sid, credentials, pc, search_task_id,
                 new_status, deleted, logged_out>>

client == <<instance, session_id, login_sid, credentials, logged_out>>

\* ------------------------------------------------------------- dispatcher, called directly
\* _get_api_data(api_endpoint) with params=None and return_json=True.
GetApiData ==
  /\ Callable
  /\ \E api_endpoint \in RegistryKeys \cup UnknownNames, data \in TaskResponses :
       LET d == get_api_data(api_endpoint, <<>>) IN
       /\ op' = [name |-> "_get_api_data", arg |-> <<api_endpoint>>]
       /\ sent' = d.reqs
       /\ recv' = IF d.exc = "" THEN <<data>> ELSE <<>>
       /\ ret' = IF d.exc = "" THEN RetJson(data) ELSE Raise(d.exc, "get")
  /\ logged' = <<>>
  /\ UNCHANGED <<client, pc, search_task_id, new_status, deleted>>

\* ------------------------------------------------------------- task operations
GetDownloadInfo ==
  /\ Callable
  /\ \E data \in TaskResponses :
       /\ sent' = get_api_data("DS_Task", list_info_params(session_id)).reqs
       /\ recv' = <<data>>
       /\ logged' = ErrorLog(data)
       /\ ret' = InfoResult(data)
  /\ op' = [name |-> "get_download_info", arg |-> <<>>]
  /\ UNCHANGED <<client, pc, search_task_id, new_status, deleted>>

GetIndividualDownloadInfo ==
  /\ Callable
  /\ \E download_task_id \in DownloadTaskIds, data \in InfoResponses :
       /\ ServerAllows(download_task_id, data)
       /\ op' = [name |-> "get_individual_download_info", arg |-> <<download_task_id>>]
       /\ sent' = get_api_data("DS_Task",
                               get_info_params(download_task_id, session_id)).reqs
       /\ recv' = <<data>>
       /\ logged' = ErrorLog(data)
       /\ ret' = InfoResult(data)
  /\ UNCHANGED <<client, pc, search_task_id, new_status, deleted>>

AddDownloadTask ==
  /\ Callable
  /\ \E url \in Urls, destination \in Destinations, data \in TaskResponses :
       /\ op' = [name |-> "add_download_task", arg |-> <<url, destination>>]
       /\ sent' = get_api_data("DS_Task", add_params(url, destination, session_id)).reqs
       /\ recv' = <<data>>
       /\ logged' = ErrorLog(data)
       /\ ret' = BoolResult(data)
  /\ UNCHANGED <<client, pc, search_task_id, new_status, deleted>>

ResumeDownloadTask ==
  /\ Callable
  /\ \E download_task_id \in DownloadTaskIds, data \in TaskResponses :
       /\ ServerAllows(download_task_id, data)
       /\ op' = [name |-> "resume_download_task", arg |-> <<download_task_id>>]
       /\ sent' = get_api_data("DS_Task",
                               resume_params(download_task_id, session_id)).reqs
       /\ recv' = <<data>>
       /\ logged' = ErrorLog(data)
       /\ ret' = BoolResult(data)
  /\ UNCHANGED <<client, pc, search_task_id, new_status, deleted>>

\* The remote service's own step on a delete request it answers with data.
ServerDelete(download_task_id, data) ==
  IF data.success THEN deleted \cup {download_task_id} ELSE deleted

RemoveDownloadTask ==
  /\ Callable
  /\ \E download_task_id \in DownloadTaskIds, data \in TaskResponses :
       /\ ServerAllows(download_task_id, data)
       /\ op' = [name |-> "remove_download_task", arg |-> <<download_task_id>>]
       /\ sent' = get_api_data("DS_Task",
                               delete_params(download_task_id, session_id)).reqs
       /\ recv' = <<data>>
       /\ logged' = ErrorLog(data)
       /\ ret' = BoolResult(data)
       /\ deleted' = ServerDelete(download_task_id, data)
  /\ UNCHANGED <<client, pc, search_task_id, new_status>>

\* ------------------------------------------------------------- bt_search_for_show
\* Lines 173-187 and 204-206: the start request, then data['data']['taskid']
\* (a KeyError when the body has none), then the status code.
SearchShowStart ==
  /\ Callable
  /\ \E search_term \in SearchTerms, quality_to_search \in Qualities,
        data \in StartResponses :
       /\ op' = [name |-> "bt_search_for_show", arg |-> <<search_term, quality_to_search>>]
       /\ sent' = get_api_data("DS_BT_Search",
                               search_start_params(search_term, session_id)).reqs
       /\ recv' = <<data>>
       /\ search_task_id' = data.taskid
       /\ IF data.taskid = Absent
            THEN pc' = "idle" /\ ret' = Raise("KeyError", "taskid")
            ELSE IF data.status_code = 200
                   THEN pc' = "ss_list" /\ ret' = Pending
                   ELSE pc' = "idle" /\ ret' = RetNone
  /\ logged' = <<>>
  /\ UNCHANGED <<client, new_status, deleted>>

\* Lines 189-203: the single list request after the wait.
SearchShowList ==
  /\ pc = "ss_list"
  /\ \E data \in ListResponses :
       /\ sent' = sent \o get_api_data("DS_BT_Search",
                     search_list_params(op.arg[2], search_task_id, session_id)).reqs
       /\ recv' = Append(recv, data)
       /\ ret' = RetData(data)
  /\ pc' = "idle"
  /\ UNCHANGED <<client, op, search_task_id, new_status, logged, deleted>>

\* ------------------------------------------------------------- bt_search_with_wait
\* Lines 254-267: the start request (its status code is not read), then
\* data['data']['taskid'].
SearchWaitStart ==
  /\ Callable
  /\ \E search_term \in SearchTerms, default_search_quality \in Qualities,
        data \in StartResponses :
       /\ op' = [name |-> "bt_search_with_wait",
                 arg |-> <<search_term, default_search_quality>>]
       /\ sent' = get_api_data("DS_BT_Search",
                               search_start_params(search_term, session_id)).reqs
       /\ recv' = <<data>>
       /\ search_task_id' = data.taskid
       /\ IF data.taskid = Absent
            THEN pc' = "idle" /\ ret' = Raise("KeyError", "taskid")
            ELSE pc' = "sw_loop" /\ ret' = Pending
  /\ logged' = <<>>
  /\ UNCHANGED <<client, new_status, deleted>>

\* Where the caller goes when the loop's check returned r, not False.
LoopExitReturnsLoopValue(r) == [pc |-> "idle", ret |-> r]

LoopExit(r) == [pc |-> "sw_final", ret |-> Pending]

\* Lines 269-272: one evaluation of the while condition.
SearchWaitPoll ==
  /\ pc = "sw_loop"
  /\ Len(sent) - 1 < MaxPolls
  /\ \E data \in ListResponses :
       LET r == CheckResult(data) IN
       /\ sent' = sent \o get_api_data("DS_BT_Search",
                     search_list_params(op.arg[2], search_task_id, session_id)).reqs
       /\ recv' = Append(recv, data)
       /\ IF r = RetFalse
            THEN pc' = "sw_loop" /\ ret' = Pending
            ELSE pc' = LoopExit(r).pc /\ ret' = LoopExit(r).ret
  /\ UNCHANGED <<client, op, search_task_id, new_status, logged, deleted>>

\* Lines 274-276: the check is called once more and its value returned.
SearchWaitReturn ==
  /\ pc = "sw_final"
  /\ \E data \in ListResponses :
       /\ sent' = sent \o get_api_data("DS_BT_Search",
                     search_list_params(op.arg[2], search_task_id, session_id)).reqs
       /\ recv' = Append(recv, data)
       /\ ret' = CheckResult(data)
  /\ pc' = "idle"
  /\ UNCHANGED <<client, op, search_task_id, new_status, logged, deleted>>

\* ------------------------------------------------------------- correct_finished_downloads
old_status == "finished"

\* The while condition, line 420.
LoopTestOnce(status) == "idle"

LoopTest(status) == IF status = old_status THEN "cf_resume" ELSE "idle"

\* Lines 426-430 after a status was read.
AfterCheckDeleteOnChange(status) ==
  IF status # old_status THEN "cf_delete" ELSE LoopTest(status)

AfterCheck(status) ==
  IF status = "downloading" THEN "cf_delete" ELSE LoopTest(status)

Methods(reqs) == [i \in 1..Len(reqs) |-> Param(reqs[i], "method")]

Count(reqs, method) == Cardinality({i \in 1..Len(reqs) : Param(reqs[i], "method") = method})

\* Lines 418-420: entry, the first evaluation of the while condition.
CorrectStart ==
  /\ Callable
  /\ \E download_task_id \in DownloadTaskIds :
       op' = [name |-> "correct_finished_downloads", arg |-> <<download_task_id>>]
  /\ new_status' = old_status
  /\ pc' = "cf_resume"
  /\ sent' = <<>> /\ recv' = <<>> /\ logged' = <<>>
  /\ ret' = Pending
  /\ UNCHANGED <<client, search_task_id, deleted>>

\* Line 421: resume_download_task, its result dropped.
CorrectResume ==
  /\ pc = "cf_resume"
  /\ Count(sent, "getinfo") < MaxChecks
  /\ \E data \in TaskResponses :
       /\ ServerAllows(op.arg[1], data)
       /\ sent' = sent \o get_api_data("DS_Task",
                                       resume_params(op.arg[1], session_id)).reqs
       /\ recv' = Append(recv, data)
       /\ logged' = logged \o ErrorLog(data)
  /\ pc' = "cf_getinfo"
  /\ UNCHANGED <<client, op, search_task_id, new_status, ret, deleted>>

\* Lines 423-429: get_individual_download_info(...)['tasks'][0]['status'];
\* subscripting the False of a failed query is a TypeError.
CorrectCheck ==
  /\ pc = "cf_getinfo"
  /\ \E data \in InfoResponses :
       /\ ServerAllows(op.arg[1], data)
       /\ sent' = sent \o get_api_data("DS_Task",
                                       get_info_params(op.arg[1], session_id)).reqs
       /\ recv' = Append(recv, data)
       /\ logged' = logged \o ErrorLog(data)
       /\ IF InfoResult(data) = RetFalse
            THEN /\ pc' = "idle"
                 /\ ret' = Raise("TypeError", "tasks")
                 /\ new_status' = new_status
            ELSE /\ new_status' = data.status
                 /\ pc' = AfterCheck(data.status)
                 /\ ret' = IF AfterCheck(data.status) = "idle" THEN RetTrue ELSE Pending
  /\ UNCHANGED <<client, op, search_task_id, deleted>>

\* Line 430: remove_download_task, its result dropped; then the while condition.
CorrectDelete ==
  /\ pc = "cf_delete"
  /\ \E data \in TaskResponses :
       /\ ServerAllows(op.arg[1], data)
       /\ sent' = sent \o get_api_data("DS_Task",
                                       delete_params(op.arg[1], session_id)).reqs
       /\ recv' = Append(recv, data)
       /\ logged' = logged \o ErrorLog(data)
       /\ deleted' = ServerDelete(op.arg[1], data)
  /\ pc' = LoopTest(new_status)
  /\ ret' = IF LoopTest(new_status) = "idle" THEN RetTrue ELSE Pending
  /\ UNCHANGED <<client, op, search_task_id, new_status>>

\* ------------------------------------------------------------- __exit__
ExcTypes == {"None", "ValueError"}

LogoutResponses == {[Blank EXCEPT !.status_code = c] : c \in {200, 500}}

logout_params ==
  << <<"version", "1">>, <<"method", "logout">>, <<"session", "DownloadStation">> >>

RetSelf == [Pending EXCEPT !.kind = "self"]

\* Lines 118-123: with an exception pending exit(1) raises SystemExit before
\* anything is sent.
ExitPath(exc_type) == exc_type # "None"

\* Lines 139-142: the message written for the logout's response.
LogoutLog(response) ==
  IF response.status_code = 200 THEN <<>>
  ELSE <<"Problem with closing API sessions">>

\* __exit__(exc_type, exc_val, exc_tb), called on a constructed instance.  The
\* logout is sent with requests.get directly, not through _get_api_data; the
\* instance and its session_id are left as they are.
Exit ==
  /\ Callable
  /\ \E exc_type \in ExcTypes, response \in LogoutResponses :
       /\ op' = [name |-> "__exit__", arg |-> <<exc_type>>]
       /\ IF ExitPath(exc_type)
            THEN /\ instance' = "exited"
                 /\ sent' = <<>> /\ recv' = <<>>
                 /\ logged' = <<exc_type>>
                 /\ ret' = Raise("SystemExit", "1")
                 /\ logged_out' = logged_out
            ELSE /\ instance' = instance
                 /\ sent' = << Request(nas_api_endpoint_details["API_Auth"],
                                       logout_params) >>
                 /\ recv' = <<response>>
                 /\ logged' = LogoutLog(response)
                 /\ ret' = RetSelf
                 /\ logged_out' = TRUE
  /\ UNCHANGED <<session_id, login_sid, credentials, pc, search_task_id, new_status,
                 deleted>>

\* ------------------------------------------------------------- specification
Next ==
  \/ Construct
  \/ Authenticate
  \/ GetApiData
  \/ GetDownloadInfo
  \/ GetIndividualDownloadInfo
  \/ AddDownloadTask
  \/ ResumeDownloadTask
  \/ RemoveDownloadTask
  \/ SearchShowStart
  \/ SearchShowList
  \/ SearchWaitStart
  \/ SearchWaitPoll
  \/ SearchWaitReturn
  \/ CorrectStart
  \/ CorrectResume
  \/ CorrectCheck
  \/ CorrectDelete
  \/ Exit

Spec == Init /\ [][Next]_vars

\* ------------------------------------------------------------- readouts of a call
Returned(name) == pc = "idle" /\ op.name = name /\ ret.kind # "pending"

IsGetInfo(i) == Param(sent[i], "method") = "getinfo"

\* The responses to the getinfo requests of the call, in order.
InfoReplies ==
  LET idx == SelectSeq([i \in 1..Len(sent) |-> i], IsGetInfo) IN
  [k \in 1..Len(idx) |-> recv[idx[k]]]

\* The status values the service reported to them.
ObservedStatuses ==
  [k \in 1..Len(InfoReplies) |->
     IF InfoReplies[k].success THEN InfoReplies[k].status ELSE Absent]

\* The responses to the status (list) requests of a search: all but the first.
Polls == IF Len(recv) = 0 THEN <<>> ELSE SubSeq(recv, 2, Len(recv))

NumFalse(polls) == Cardinality({i \in 1..Len(polls) : ~polls[i].finished})

\* finished=false for the first N polls and finished=true from poll N+1 on.
FalseThenTrue(polls) ==
  /\ \E i \in 1..Len(polls) : polls[i].finished
  /\ \A i, j \in 1..Len(polls) : (i < j /\ polls[i].finished) => polls[j].finished

IsPrefix(s, t) == Len(s) <= Len(t) /\ \A i \in 1..Len(s) : s[i] = t[i]

LastParam(req) == req.query[Len(req.query)]

C2_Original ==
  (Returned("correct_finished_downloads") /\ ret.kind # "raise"
     /\ IsPrefix(ObservedStatuses, <<"finished", "seeding">>))
    => /\ Count(sent, "resume") = 1
       /\ Count(sent, "getinfo") = 1
       /\ Count(sent, "delete") = 0
       /\ ret = RetTrue

\* C2, amended: with the statuses finished, seeding the call does not end after
\* the first check (which read finished); it ends right after the second, having
\* issued exactly two resume requests and two status checks and no delete, and
\* returns True.
C2_SeedingRun ==
  op.name = "correct_finished_downloads" =>
    /\ ObservedStatuses = <<"finished">> => pc \in {"cf_resume", "cf_getinfo"}
    /\ ObservedStatuses = <<"finished", "seeding">> =>
         /\ pc = "idle"
         /\ ret = RetTrue
         /\ Methods(sent) = <<"resume", "getinfo", "resume", "getinfo">>

C2_Witness ==
  /\ Returned("correct_finished_downloads")
  /\ ObservedStatuses = <<"finished", "seeding">>
  /\ Count(sent, "resume") = 2
  /\ ret = RetTrue

\* ------------------------------------------------------------- C3
\* C3: with the statuses finished, downloading the call issues exactly one
\* delete request for the task, after the check that read downloading, and then
\* ends; and in any run a delete request directly follows a status check that
\* returned downloading.
C3_DeleteOnlyAfterDownloading ==
  op.name = "correct_finished_downloads" =>
    /\ ObservedStatuses = <<"finished", "downloading">> =>
         \/ pc = "cf_delete" /\ Count(sent, "delete") = 0
         \/ /\ pc = "idle"
            /\ ret = RetTrue
            /\ Methods(sent) = <<"resume", "getinfo", "resume", "getinfo", "delete">>
            /\ Param(sent[5], "id") = op.arg[1]
    /\ \A i \in 1..Len(sent) :
         Param(sent[i], "method") = "delete" =>
           /\ i > 1
           /\ Param(sent[i - 1], "method") = "getinfo"
           /\ recv[i - 1].success
           /\ recv[i - 1].status = "downloading"

C3_Witness ==
  /\ Returned("correct_finished_downloads")
  /\ ObservedStatuses = <<"finished", "downloading">>
  /\ Count(sent, "delete") = 1

\* ------------------------------------------------------------- C4
TaskOperations ==
  {"get_download_info", "get_individual_download_info", "add_download_task",
   "resume_download_task", "remove_download_task", "correct_finished_downloads"}

\* C4: every request issued by a task operation carries _sid exactly once, as
\* the last parameter of its query string, with the session id obtained at login.
C4_SidLast ==
  op.name \in TaskOperations =>
    \A i \in 1..Len(sent) :
      /\ LastParam(sent[i]) = <<"_sid", login_sid>>
      /\ login_sid \in SIDs
      /\ Cardinality({k \in 1..Len(sent[i].query) : sent[i].query[k][1] = "_sid"}) = 1

C4_Witness ==
  /\ op.name = "add_download_task"
  /\ Len(sent) = 1
  /\ LastParam(sent[1]) = <<"_sid", login_sid>>
  /\ Param(sent[1], "destination") = "/video"

\* ------------------------------------------------------------- C5
\* C5 as stated: for an endpoint name outside the registry _get_api_data fails
\* with the UnknownEndpoint error kind and sends no request.
C5_UnknownEndpoint ==
  (op.name = "_get_api_data" /\ op.arg[1] \notin RegistryKeys)
    => /\ ret.kind = "raise"
       /\ ret.text = "UnknownEndpoint"
       /\ sent = <<>>

\* ------------------------------------------------------------- C6
IsAuthCall == op.name \in {"__init__", "authenticate"}

\* C6 as stated: one GET to API_Auth; on success the value of data.sid is
\* returned; on failure the authentication error is raised carrying the raw
\* error payload.
C6_Original ==
  IsAuthCall =>
    /\ Len(sent) = 1
    /\ (recv[1].success /\ recv[1].sid # Absent) => ret = RetStr(recv[1].sid)
    /\ ~recv[1].success =>
         /\ ret.kind = "raise" /\ ret.text = "AuthError"
         /\ ret.data = recv[1]

\* C6, amended: authenticate sends exactly one GET to API_Auth and never
\* retries; on success it returns exactly data.sid; on failure it raises the
\* authentication error with the fixed message "Authentication unsuccessful"
\* (the raw error payload is written to the error log, not carried by the
\* error) and no session id is returned or stored.
C6_Authenticate ==
  IsAuthCall =>
    /\ Len(sent) = 1
    /\ sent[1].path = "auth.cgi"
    /\ Param(sent[1], "api") = "SYNO.API.Auth"
    /\ (recv[1].success /\ recv[1].sid # Absent) => ret = RetStr(recv[1].sid)
    /\ ~recv[1].success =>
         /\ ret = Raise("AuthError", "Authentication unsuccessful")
         /\ logged = <<recv[1]>>
         /\ op.name = "__init__" => session_id = Absent

C6_Witness ==
  /\ op.name = "authenticate"
  /\ Len(sent) = 1
  /\ ~recv[1].success
  /\ ret = Raise("AuthError", "Authentication unsuccessful")
  /\ logged = <<recv[1]>>

\* ------------------------------------------------------------- C7
SessionPaths == {"DownloadStation/btsearch.cgi", "DownloadStation/task.cgi"}

\* C7: an instance exists only after a successful login whose session id it
\* stores; a failed login leaves no instance; and a search or task request is
\* sent only by such an instance, with that session id.
C7_AuthenticatedOnly ==
  /\ instance = "alive" => login_sid \in SIDs /\ session_id = login_sid
  /\ instance = "failed" =>
       /\ session_id = Absent
       /\ op.name = "__init__" /\ ret.kind = "raise"
       /\ \A i \in 1..Len(sent) : sent[i].path \notin SessionPaths
  /\ instance = "none" => sent = <<>>
  /\ \A i \in 1..Len(sent) :
       sent[i].path \in SessionPaths =>
         /\ instance = "alive"
         /\ login_sid \in SIDs
         /\ session_id = login_sid

C7_Witness ==
  /\ instance = "alive"
  /\ op.name = "bt_search_for_show"
  /\ Len(sent) = 2
  /\ Param(sent[2], "_sid") = login_sid

\* ------------------------------------------------------------- C8
BoolOperations == {"add_download_task", "resume_download_task", "remove_download_task"}

\* C8: add, resume and remove each send exactly one request, return True iff
\* the response has success == true and False otherwise, never raising; a
\* remove of an id the service has already deleted returns False.
C8_BooleanResult ==
  op.name \in BoolOperations =>
    /\ Len(sent) = 1
    /\ ret.kind \in {"True", "False"}
    /\ ret = RetTrue <=> recv[1].success
    /\ ~recv[1].success => ret = RetFalse /\ logged = <<recv[1]>>
    /\ (op.name = "remove_download_task" /\ ret = RetTrue) => op.arg[1] \in deleted

C8_Witness ==
  /\ op.name = "remove_download_task"
  /\ op.arg[1] \in deleted
  /\ ~recv[1].success
  /\ ret = RetFalse

\* ------------------------------------------------------------- C9
SearchOperations == {"bt_search_for_show", "bt_search_with_wait"}

BadStart(data) == data.status_code # 200 \/ data.taskid = Absent

\* C9 as stated: when the search-start response is not an HTTP success or has
\* no task id, the search fails with the SearchStartError kind and issues no
\* status (list) request.
C9_SearchStartError ==
  (op.name \in SearchOperations /\ BadStart(recv[1]))
    => /\ pc = "idle"
       /\ ret.kind = "raise" /\ ret.text = "SearchStartError"
       /\ Count(sent, "list") = 0

\* ------------------------------------------------------------- C10
\* C10 as stated: whatever finished flags the service reports, a value returned
\* by bt_search_with_wait is a payload whose finished flag is true.
C10_ReturnsFinishedPayload ==
  (Returned("bt_search_with_wait") /\ ret.kind # "raise")
    => ret.kind = "data" /\ ret.data.finished

\* ------------------------------------------------------------- C11
\* What one call of __exit__ does: with no exception pending, exactly one GET
\* to API_Auth with {version: 1, method: logout, session: DownloadStation},
\* which returns whatever the status code; with an exception pending, the
\* process ends and nothing is sent.
ExitCallContract ==
  op.name = "__exit__" =>
    /\ op.arg[1] = "None" =>
         /\ Len(sent) = 1
         /\ sent[1].path = "auth.cgi"
         /\ sent[1].query = << <<"api", "SYNO.API.Auth">>, <<"version", "1">>,
                               <<"method", "logout">>,
                               <<"session", "DownloadStation">> >>
         /\ ret = RetSelf
         /\ recv[1].status_code # 200 => logged # <<>>
         /\ instance = "alive"
    /\ op.arg[1] # "None" =>
         /\ sent = <<>>
         /\ ret = Raise("SystemExit", "1")
         /\ instance = "exited"

\* The logout is the client's last request: once it has been sent, no call
\* other than __exit__ sends a request.
LogoutIsLast == logged_out => (op.name = "__exit__" \/ sent = <<>>)

\* C11 as stated: on __exit__ with no exception pending exactly one logout GET
\* {version: 1, method: logout, session: DownloadStation} goes to API_Auth,
\* after every other request of the client, and a non-200 response is only
\* logged; with an exception pending the process ends and no logout is sent.
C11_LogoutLast == ExitCallContract /\ LogoutIsLast

====
